---- MODULE Spec2Model ----
(***************************************************************************)
(* The command registry (mopidy_mpd.protocol.Commands) and the client      *)
(* session (mopidy_mpd.session.MpdSession) of mopidy-mpd.                  *)
(*                                                                         *)
(* A Python string is a sequence of one-character strings, so that the    *)
(* first-character guard, the tokenizer and the converters work on the     *)
(* characters.  A Python value is a record [type, s, n]: a str carries its *)
(* characters in s, an int its number in n.                                *)
(***************************************************************************)
EXTENDS Integers, Sequences, FiniteSets, TLC

(***************************************************************************)
(* Bounds of the model.                                                    *)
(***************************************************************************)
\* most positional parameters a handler declares, the context included
MaxArgs == 3
\* most tokens of one Commands.call, the command name included
MaxTokens == 4
\* most lines one connection receives
MaxLines == 2
MaxRangeLen == 3
MaxEvents == 2
MaxListLen == 3

(***************************************************************************)
(* Python values.                                                          *)
(***************************************************************************)
Str(s) == [type |-> "str", s |-> s, n |-> 0]
IntV(n) == [type |-> "int", s |-> <<>>, n |-> n]
NoneV == [type |-> "none", s |-> <<>>, n |-> 0]
\* the MpdContext object the dispatcher passes as first argument
Context == [type |-> "context", s |-> <<>>, n |-> 0]

Min(a, b) == IF a < b THEN a ELSE b

SeqsUpTo(S, m) == UNION {[1..j -> S] : j \in 0..m}

(***************************************************************************)
(* Converters (protocol/__init__.py).                                      *)
(***************************************************************************)
Digits == {"0", "1", "2", "3", "4", "5", "6", "7", "8", "9"}

DigitVal(c) ==
    CASE c = "0" -> 0 [] c = "1" -> 1 [] c = "2" -> 2 [] c = "3" -> 3
      [] c = "4" -> 4 [] c = "5" -> 5 [] c = "6" -> 6 [] c = "7" -> 7
      [] c = "8" -> 8 [] c = "9" -> 9

\* str.isdigit(): non-empty and every character a digit
IsDigit(s) == Len(s) > 0 /\ \A i \in 1..Len(s) : s[i] \in Digits

\* int(value) on a string of digits
RECURSIVE ParseInt(_)
ParseInt(s) ==
    IF Len(s) = 0 THEN 0
    ELSE 10 * ParseInt(SubSeq(s, 1, Len(s) - 1)) + DigitVal(s[Len(s)])

\* what a converter does: exc = "" and the converted value, or the exception
Converted(v) == [exc |-> "", val |-> v]
ConvFails(e) == [exc |-> e, val |-> NoneV]

UINT(value) ==
    IF value.type = "none" THEN ConvFails("ValueError")
    ELSE IF value.type # "str" THEN ConvFails("AttributeError")
    ELSE IF ~IsDigit(value.s) THEN ConvFails("ValueError")
    ELSE Converted(IntV(ParseInt(value.s)))

\* slice(start, stop); stop is None for a slice without an upper end
Slice(start, stop) == [type |-> "slice", start |-> start, stop |-> stop]

Whitespace == {" "}

\* ":" in value, and where value.split(":", 1) cuts: the first ":" (0 if none)
FirstColon(s) ==
    IF \E i \in 1..Len(s) : s[i] = ":"
    THEN CHOOSE i \in 1..Len(s) : s[i] = ":" /\ \A j \in 1..(i - 1) : s[j] # ":"
    ELSE 0

\* str.strip(): the leading and trailing whitespace removed
RECURSIVE Strip(_)
Strip(s) ==
    IF Len(s) = 0 THEN s
    ELSE IF s[1] \in Whitespace THEN Strip(SubSeq(s, 2, Len(s)))
    ELSE IF s[Len(s)] \in Whitespace THEN Strip(SubSeq(s, 1, Len(s) - 1))
    ELSE s

RANGE(value) ==
    LET k == FirstColon(value.s)
    IN IF k # 0
       THEN LET start == UINT(Str(SubSeq(value.s, 1, k - 1)))
                stopText == SubSeq(value.s, k + 1, Len(value.s))
            IN IF start.exc # "" THEN start
               ELSE IF Strip(stopText) # <<>>
               THEN LET stop == UINT(Str(stopText))
                    IN IF stop.exc # "" THEN stop
                       ELSE IF start.val.n >= stop.val.n THEN ConvFails("ValueError")
                       ELSE Converted(Slice(start.val, stop.val))
               ELSE Converted(Slice(start.val, NoneV))
       ELSE LET start == UINT(value)
            IN IF start.exc # "" THEN start
               ELSE Converted(Slice(start.val, IntV(start.val.n + 1)))

ValidatorNames == {"UINT"}

ApplyValidator(v, value) ==
    CASE v = "UINT" -> UINT(value)


(***************************************************************************)
(* Handlers.  A handler is known to the registry by what                   *)
(* inspect.getfullargspec reports of it: args (the positional parameter    *)
(* names), defaults (the defaults of the last parameters), and whether it  *)
(* has *args (varargs), **kwargs (varkw) or keyword-only parameters.       *)
(***************************************************************************)
ParamNames == <<"context", "x", "y", "z", "w">>

DefaultVals == {IntV(5), Str(<<"5">>)}

\* the handlers offered for registration, malformed ones included; the
\* context parameter has no default
FuncShapes ==
    {[args |-> SubSeq(ParamNames, 1, k), defaults |-> d,
      varargs |-> va, varkw |-> vk, kwonlyargs |-> ko] :
        k \in 0..MaxArgs, d \in SeqsUpTo(DefaultVals, MaxArgs - 1),
        va \in BOOLEAN, vk \in BOOLEAN, ko \in BOOLEAN}

Funcs == {f \in FuncShapes : Len(f.defaults) < Len(f.args) \/ Len(f.defaults) = 0}

\* the **validators keyword arguments of Commands.add: converters for the
\* parameters after the context
ValidatorKeys == {ParamNames[i] : i \in 2..MaxArgs}
ValidatorMaps == UNION {[K -> ValidatorNames] : K \in SUBSET ValidatorKeys}

\* defaults = dict(zip(spec.args[-len(spec.defaults or []):], spec.defaults or []))
\* (args[-0:] is the whole list; zip stops at the shorter sequence)
DefaultsOf(spec) ==
    LET nd == Len(spec.defaults)
        na == Len(spec.args)
        tail == IF nd = 0 \/ nd >= na THEN spec.args
                ELSE SubSeq(spec.args, na - nd + 1, na)
        m == Min(Len(tail), nd)
    IN [key \in {tail[i] : i \in 1..m} |->
            spec.defaults[CHOOSE i \in 1..m : tail[i] = key]]

(***************************************************************************)
(* Commands.add(name, **validators)(func): the checks of wrapper.          *)
(***************************************************************************)
AlreadyRegisteredNever(h, name) == FALSE

AlreadyRegistered(h, name) == name \in DOMAIN h

ShapeErrorAllowsMixedVarargs(spec, validators) ==
    IF Len(spec.args) = 0 /\ ~spec.varargs
    THEN "Handler must accept at least one argument."
    ELSE IF ~(DOMAIN validators \subseteq {spec.args[i] : i \in 1..Len(spec.args)})
    THEN "Validator for non-existent arg passed"
    ELSE IF spec.varkw \/ spec.kwonlyargs
    THEN "Keyword arguments are not permitted"
    ELSE ""

\* the message of the TypeError wrapper raises, "" when it raises none
ShapeError(spec, validators) ==
    IF Len(spec.args) = 0 /\ ~spec.varargs
    THEN "Handler must accept at least one argument."
    ELSE IF Len(spec.args) > 1 /\ spec.varargs
    THEN "*args may not be combined with regular arguments"
    ELSE IF ~(DOMAIN validators \subseteq {spec.args[i] : i \in 1..Len(spec.args)})
    THEN "Validator for non-existent arg passed"
    ELSE IF spec.varkw \/ spec.kwonlyargs
    THEN "Keyword arguments are not permitted"
    ELSE ""

\* what the closure validate captures: spec, defaults and validators
Entry(spec, validators) ==
    [spec |-> spec, defaults |-> DefaultsOf(spec), validators |-> validators]

AddOutcomeStoresFirst(h, name, spec, validators) ==
    LET stored == [n \in DOMAIN h \cup {name} |->
                      IF n = name THEN Entry(spec, validators) ELSE h[n]]
    IN IF AlreadyRegistered(h, name)
       THEN [exc |-> "ValueError", msg |-> "already registered", handlers |-> h]
       ELSE IF ShapeError(spec, validators) # ""
       THEN [exc |-> "TypeError", msg |-> ShapeError(spec, validators),
             handlers |-> stored]
       ELSE [exc |-> "", msg |-> "", handlers |-> stored]

\* the outcome of one registration: the exception raised ("" for none) and
\* the registry afterwards (self.handlers[name] = validate)
AddOutcome(h, name, spec, validators) ==
    IF AlreadyRegistered(h, name)
    THEN [exc |-> "ValueError", msg |-> "already registered", handlers |-> h]
    ELSE IF ShapeError(spec, validators) # ""
    THEN [exc |-> "TypeError", msg |-> ShapeError(spec, validators), handlers |-> h]
    ELSE [exc |-> "", msg |-> "",
          handlers |-> [n \in DOMAIN h \cup {name} |->
                            IF n = name THEN Entry(spec, validators) ELSE h[n]]]

(***************************************************************************)
(* The invoker validate that wrapper registers.                            *)
(***************************************************************************)
\* the outcome of an invoker or of Commands.call: what was raised ("" when
\* it returned), the result returned, the validators applied (in order) and
\* the calls of the handler func
Raised(exc, msg, command, validated) ==
    [exc |-> exc, msg |-> msg, command |-> command, result |-> "",
     validated |-> validated, funcCalls |-> <<>>]

\* what the handler does once called: it returns a Result or raises an
\* MPD failure of its own
HandlerBehaviours == {"returns", "raises"}

\* func(...): the handler is called with args and behaves as `behaviour`
CallFunc(spec, args, behaviour, validated) ==
    [exc |-> IF behaviour = "raises" THEN "MpdAckError" ELSE "",
     msg |-> IF behaviour = "raises" THEN "handler failed" ELSE "",
     command |-> <<>>,
     result |-> IF behaviour = "raises" THEN "" ELSE "Result",
     validated |-> validated,
     funcCalls |-> <<[spec |-> spec, args |-> args]>>]

BindFitsNoUpperLimit(spec, n) == Len(spec.args) - Len(spec.defaults) <= n

BindFitsNoOptional(spec, n) == n = Len(spec.args)

\* inspect.signature(func).bind of n positional arguments succeeds:
\* every parameter without default is given and no argument is left over
BindFits(spec, n) ==
    /\ Len(spec.args) - Len(spec.defaults) <= n
    /\ n <= Len(spec.args)

\* ba.arguments after ba.apply_defaults(), in parameter order
BoundArguments(spec, args) ==
    [i \in 1..Len(spec.args) |->
        IF i <= Len(args) THEN args[i]
        ELSE spec.defaults[i - (Len(spec.args) - Len(spec.defaults))]]

NeedsConversionAlways(entry, key, value) == key \in DOMAIN entry.validators

\* key in validators and value != defaults.get(key, object())
NeedsConversion(entry, key, value) ==
    /\ key \in DOMAIN entry.validators
    /\ (key \notin DOMAIN entry.defaults \/ value # entry.defaults[key])

ConvertValueKeepsRaw(entry, key, value) ==
    LET r == ApplyValidator(entry.validators[key], value)
    IN IF r.exc = "ValueError" THEN [exc |-> "", msg |-> "", val |-> value]
       ELSE [exc |-> r.exc, msg |-> "", val |-> r.val]

\* try: callargs[key] = validators[key](value)
\* except ValueError: raise MpdArgError("incorrect arguments")
ConvertValue(entry, key, value) ==
    LET r == ApplyValidator(entry.validators[key], value)
    IN IF r.exc = "ValueError"
       THEN [exc |-> "MpdArgError", msg |-> "incorrect arguments", val |-> value]
       ELSE [exc |-> r.exc, msg |-> "", val |-> r.val]

\* for key, value in callargs.items(): ... from the i-th parameter on
RECURSIVE ConvertLoop(_, _, _, _)
ConvertLoop(entry, callargs, i, log) ==
    IF i > Len(callargs)
    THEN [exc |-> "", msg |-> "", callargs |-> callargs, validated |-> log]
    ELSE LET key == entry.spec.args[i]
             value == callargs[i]
         IN IF NeedsConversion(entry, key, value)
            THEN LET c == ConvertValue(entry, key, value)
                     applied == [key |-> key, value |-> value,
                                 rejected |-> ApplyValidator(entry.validators[key],
                                                             value).exc = "ValueError"]
                 IN IF c.exc # ""
                    THEN [exc |-> c.exc, msg |-> c.msg, callargs |-> callargs,
                          validated |-> Append(log, applied)]
                    ELSE ConvertLoop(entry, [callargs EXCEPT ![i] = c.val], i + 1,
                                     Append(log, applied))
            ELSE ConvertLoop(entry, callargs, i + 1, log)

ValidateAlwaysBinds(entry, args, behaviour) ==
    IF ~BindFits(entry.spec, Len(args))
    THEN Raised("MpdArgError", "wrong number of arguments", <<>>, <<>>)
    ELSE LET c == ConvertLoop(entry, BoundArguments(entry.spec, args), 1, <<>>)
         IN IF c.exc # ""
            THEN Raised(c.exc, c.msg, <<>>, c.validated)
            ELSE CallFunc(entry.spec, c.callargs, behaviour, c.validated)

\* validate called with args, the context followed by the tokens
Validate(entry, args, behaviour) ==
    IF entry.spec.varargs
    THEN CallFunc(entry.spec, args, behaviour, <<>>)
    ELSE IF ~BindFits(entry.spec, Len(args))
    THEN Raised("MpdArgError", "wrong number of arguments", <<>>, <<>>)
    ELSE LET c == ConvertLoop(entry, BoundArguments(entry.spec, args), 1, <<>>)
         IN IF c.exc # ""
            THEN Raised(c.exc, c.msg, <<>>, c.validated)
            ELSE CallFunc(entry.spec, c.callargs, behaviour, c.validated)

(***************************************************************************)
(* Commands.call(context, tokens).                                         *)
(***************************************************************************)
StrArgs(tokens) == [i \in 1..Len(tokens) |-> Str(tokens[i])]

InvokerArgsWithCommand(context, tokens) == <<context>> \o StrArgs(tokens)

\* command, tokens = tokens[0], tokens[1:]; handlers[command] is called with context and those
InvokerArgs(context, tokens) == <<context>> \o StrArgs(Tail(tokens))

\* the outcome of Commands.call, with the invokers it called (invokerCalls)
\* and what the invoker did (invoker)
CallOutcome(h, tokens, behaviour) ==
    IF Len(tokens) = 0
    THEN [out |-> Raised("MpdNoCommandError", "No command given", <<>>, <<>>),
          invokerCalls |-> <<>>]
    ELSE IF tokens[1] \notin DOMAIN h
    THEN [out |-> Raised("MpdUnknownCommandError", "unknown command", tokens[1], <<>>),
          invokerCalls |-> <<>>]
    ELSE [out |-> Validate(h[tokens[1]], InvokerArgs(Context, tokens), behaviour),
          invokerCalls |-> <<[entry |-> h[tokens[1]],
                              args |-> InvokerArgs(Context, tokens)]>>]

(***************************************************************************)
(* State.                                                                  *)
(*   handlers   Commands.handlers: command name -> registered invoker      *)
(*   pc, op     the registry operation that has just run, with its         *)
(*              arguments and outcome, until its caller has taken it       *)
(*   started, stopped, trace                                               *)
(*              one MpdSession: whether on_start has run, whether the      *)
(*              connection was stopped, and what the session did, in order *)
(***************************************************************************)
VARIABLES handlers, pc, op, started, stopped, trace, dispatcher

vars == <<handlers, pc, op, started, stopped, trace, dispatcher>>

PLAY == <<"p", "l", "a", "y">>
STOP == <<"s", "t", "o", "p">>
BOGUS == <<"b", "o", "g", "u", "s">>

\* the command names registered, and the names requests use
Names == {PLAY, STOP}
CommandTokens == Names \cup {BOGUS}

\* the argument tokens of requests
ArgTokens == {<<"5">>, <<"1", "2">>, <<"a">>}

TokenLists ==
    {<<>>} \cup {<<c>> \o a : c \in CommandTokens, a \in SeqsUpTo(ArgTokens, MaxTokens - 1)}

\* the handlers offered for registration under a name: any handler under
\* PLAY, the handlers that declare at most one positional parameter (the
\* variadic ones among them) under STOP
FuncsFor(name) ==
    IF name = PLAY THEN Funcs
    ELSE {f \in Funcs : Len(f.args) <= 1}

\* variadic handlers, and a validator given for their one declared parameter
VariadicFuncs == {f \in Funcs : f.varargs /\ Len(f.args) <= 1}
ContextValidators == [k \in {ParamNames[1]} |-> "UINT"]

NoOp == [kind |-> "none"]

\* the dispatcher of a connection outside idle mode
DispatcherOff == [state |-> "Idle-Off", subscriptions |-> {}]

\* commands = Commands(): self.handlers = {}
Init ==
    /\ handlers = <<>>
    /\ pc = "idle"
    /\ op = NoOp
    /\ started = FALSE
    /\ stopped = FALSE
    /\ trace = <<>>
    /\ dispatcher = DispatcherOff

\* commands.add(name, **validators)(func)
Commands_add(name, spec, validators) ==
    /\ pc = "idle"
    /\ LET o == AddOutcome(handlers, name, spec, validators)
       IN /\ handlers' = o.handlers
          /\ op' = [kind |-> "add", name |-> name, spec |-> spec,
                    validators |-> validators, exc |-> o.exc, msg |-> o.msg]
    /\ pc' = "done"
    /\ UNCHANGED <<started, stopped, trace, dispatcher>>

Commands_call_PopsHandler(tokens, behaviour) ==
    /\ pc = "idle"
    /\ LET c == CallOutcome(handlers, tokens, behaviour)
       IN op' = [kind |-> "call", tokens |-> tokens, behaviour |-> behaviour,
                 out |-> c.out, invokerCalls |-> c.invokerCalls]
    /\ handlers' = [n \in DOMAIN handlers \ (IF tokens = <<>> THEN {} ELSE {tokens[1]})
                        |-> handlers[n]]
    /\ pc' = "done"
    /\ UNCHANGED <<started, stopped, trace, dispatcher>>

\* commands.call(context=context, tokens=tokens)
Commands_call(tokens, behaviour) ==
    /\ pc = "idle"
    /\ LET c == CallOutcome(handlers, tokens, behaviour)
       IN op' = [kind |-> "call", tokens |-> tokens, behaviour |-> behaviour,
                 out |-> c.out, invokerCalls |-> c.invokerCalls]
    /\ pc' = "done"
    /\ UNCHANGED <<handlers, started, stopped, trace, dispatcher>>

\* the caller takes the outcome: the decorator or the call has returned or raised
Return ==
    /\ pc = "done"
    /\ pc' = "idle"
    /\ op' = NoOp
    /\ UNCHANGED <<handlers, started, stopped, trace, dispatcher>>

\* an operation starts only once the caller has taken the previous outcome
Next ==
    \/ /\ pc = "idle"
       /\ \E name \in Names, validators \in ValidatorMaps :
            \E spec \in FuncsFor(name) :
                Commands_add(name, spec, validators)
    \/ /\ pc = "idle"
       /\ \E name \in Names, spec \in VariadicFuncs :
                Commands_add(name, spec, ContextValidators)
    \/ /\ pc = "idle"
       /\ \E tokens \in TokenLists, behaviour \in HandlerBehaviours :
            Commands_call(tokens, behaviour)
    \/ Return

Spec == Init /\ [][Next]_vars

(***************************************************************************)
(* The RANGE converter applied to argument strings.                        *)
(***************************************************************************)
RangeAlphabet == {"0", "1", "2", ":", " ", "a", "-"}

RangeInputs == SeqsUpTo(RangeAlphabet, MaxRangeLen)

\* RANGE(value) on one argument string
Convert(value) ==
    /\ op' = [kind |-> "convert", value |-> value, out |-> RANGE(Str(value))]
    /\ pc' = "done"
    /\ UNCHANGED <<handlers, started, stopped, trace, dispatcher>>

ConvertNext ==
    \/ /\ pc = "idle"
       /\ \E value \in RangeInputs : Convert(value)
    \/ Return

SpecConvert == Init /\ [][ConvertNext]_vars

(***************************************************************************)
(* MpdSession (session.py).                                                *)
(***************************************************************************)
VERSION == "0.19.0"

LowerLetters ==
    {"a", "b", "c", "d", "e", "f", "g", "h", "i", "j", "k", "l", "m",
     "n", "o", "p", "q", "r", "s", "t", "u", "v", "w", "x", "y", "z"}
UpperLetters ==
    {"A", "B", "C", "D", "E", "F", "G", "H", "I", "J", "K", "L", "M",
     "N", "O", "P", "Q", "R", "S", "T", "U", "V", "W", "X", "Y", "Z"}

\* str.islower() and str.isalpha() of one character
islower(c) == c \in LowerLetters
isalpha(c) == c \in LowerLetters \cup UpperLetters

MalformedOnlyUppercase(line) == Len(line) = 0 \/ line[1] \in UpperLetters

MalformedOnlyNonEmpty(line) == Len(line) > 0 /\ ~(islower(line[1]) /\ isalpha(line[1]))

\* len(line) == 0 or not (line[0].islower() and line[0].isalpha())
Malformed(line) == Len(line) = 0 \/ ~(islower(line[1]) /\ isalpha(line[1]))

\* response lines
TextLine(text) == [type |-> "text", text |-> text, command |-> <<>>]
AckLine(kind, command) == [type |-> "ack", text |-> kind, command |-> command]
GreetingWithoutVersion == TextLine("OK MPD")

Greeting == TextLine("OK MPD " \o VERSION)

\* the dispatcher's tokenizer: the line split at spaces
RECURSIVE SplitFrom(_, _, _, _)
SplitFrom(line, i, current, tokens) ==
    IF i > Len(line)
    THEN IF current = <<>> THEN tokens ELSE Append(tokens, current)
    ELSE IF line[i] = " "
    THEN SplitFrom(line, i + 1, <<>>,
                   IF current = <<>> THEN tokens ELSE Append(tokens, current))
    ELSE SplitFrom(line, i + 1, Append(current, line[i]), tokens)

Tokenize(line) == SplitFrom(line, 1, <<>>, <<>>)

\* the failure kind an ACK line carries
AckKind(exc) ==
    CASE exc = "MpdNoCommandError" -> "no-command"
      [] exc = "MpdUnknownCommandError" -> "unknown-command"
      [] exc = "MpdArgError" -> "argument-error"
      [] OTHER -> "handler-failure"

\* dispatcher.handle_request(line): the request is resolved against the
\* registry; a Result becomes its lines and OK, a failure one ACK line
handle_request(h, line, behaviour) ==
    LET tokens == Tokenize(line)
        out == CallOutcome(h, tokens, behaviour).out
    IN IF out.exc = "" THEN <<TextLine("key: value"), TextLine("OK")>>
       ELSE <<AckLine(AckKind(out.exc),
                      IF Len(tokens) = 0 THEN <<>> ELSE tokens[1])>>

\* idle mode
IDLE == <<"i", "d", "l", "e">>
NOIDLE == <<"n", "o">> \o IDLE
PLAYER == PLAY \o <<"e", "r">>
MIXER == <<"m", "i", "x", "e", "r">>
Subsystems == {PLAYER, MIXER}

ChangedLine(subsystem) == [type |-> "changed", text |-> "changed", command |-> subsystem]

Range(f) == {f[i] : i \in DOMAIN f}

\* the dispatcher on one request line: "idle" blocks the connection on the
\* named subsystems (on all of them when none is named) and answers nothing;
\* while it is blocked only the cancellation is accepted, answered with an
\* empty success response; any other request is resolved against the registry
Dispatch(d, h, line, behaviour) ==
    LET tokens == Tokenize(line)
        command == IF tokens = <<>> THEN <<>> ELSE tokens[1]
    IN IF d.state = "Blocking-On-Idle"
       THEN IF command = NOIDLE
            THEN [response |-> <<TextLine("OK")>>, dispatcher |-> DispatcherOff]
            ELSE [response |-> <<>>, dispatcher |-> d]
       ELSE IF command = IDLE
       THEN [response |-> <<>>,
             dispatcher |-> [state |-> "Blocking-On-Idle",
                             subscriptions |-> Range(Tail(tokens))]]
       ELSE IF command = NOIDLE
       THEN [response |-> <<TextLine("OK")>>, dispatcher |-> d]
       ELSE [response |-> handle_request(h, line, behaviour), dispatcher |-> d]

\* does a blocked connection wait for this subsystem
Subscribed(d, subsystem) ==
    /\ d.state = "Blocking-On-Idle"
    /\ (d.subscriptions = {} \/ subsystem \in d.subscriptions)

\* dispatcher.handle_idle(subsystem): a blocked connection that waits for the
\* subsystem gets the response naming it and leaves idle mode
handle_idle(d, subsystem) ==
    IF Subscribed(d, subsystem)
    THEN [response |-> <<ChangedLine(subsystem), TextLine("OK")>>,
          dispatcher |-> DispatcherOff]
    ELSE [response |-> <<>>, dispatcher |-> d]

\* what the session did, in order
Received(line) == [e |-> "recv", line |-> line, lines |-> <<>>]
Dispatched(line) == [e |-> "dispatch", line |-> line, lines |-> <<>>]
Sent(lines) == [e |-> "send", line |-> <<>>, lines |-> lines]
Stopped == [e |-> "stop", line |-> <<>>, lines |-> <<>>]
Returned(lines) == [e |-> "return", line |-> <<>>, lines |-> lines]
Event(subsystem) == [e |-> "event", line |-> subsystem, lines |-> <<>>]
IdleHandled(subsystem) == [e |-> "handle_idle", line |-> subsystem, lines |-> <<>>]
Undecodable == [e |-> "undecodable", line |-> <<>>, lines |-> <<>>]
TypeErrorRaised == [e |-> "TypeError", line |-> <<>>, lines |-> <<>>]

NumReceived == Cardinality({i \in 1..Len(trace) : trace[i].e = "recv"})
NumEvents == Cardinality({i \in 1..Len(trace) : trace[i].e = "event"})

\* the lines a client sends
SessionLines ==
    {<<>>, PLAY, PLAY \o <<" ", "5">>, PLAY \o <<" ", "a">>, STOP,
     STOP \o <<" ", "5">>, BOGUS, <<"P", "L", "A", "Y">>, <<"5">>, <<" ">> \o PLAY,
     IDLE, IDLE \o <<" ">> \o PLAYER, NOIDLE}

\* the registry once the protocol modules are loaded
StartupHandlers ==
    LET play == [args |-> <<"context", "x">>, defaults |-> <<NoneV>>,
                 varargs |-> FALSE, varkw |-> FALSE, kwonlyargs |-> FALSE]
        stop == [args |-> <<"context">>, defaults |-> <<>>,
                 varargs |-> FALSE, varkw |-> FALSE, kwonlyargs |-> FALSE]
        h1 == AddOutcome(<<>>, PLAY, play, [k \in {"x"} |-> "UINT"]).handlers
    IN AddOutcome(h1, STOP, stop, <<>>).handlers

SessionInit ==
    /\ handlers = StartupHandlers
    /\ pc = "idle"
    /\ op = NoOp
    /\ started = FALSE
    /\ stopped = FALSE
    /\ trace = <<>>
    /\ dispatcher = DispatcherOff

\* self.send_lines(["OK MPD " + protocol.VERSION])
on_start ==
    /\ ~started
    /\ started' = TRUE
    /\ trace' = Append(trace, Sent(<<Greeting>>))
    /\ UNCHANGED <<handlers, pc, op, stopped, dispatcher>>

RelayNothing(response) == <<>>

RelayAlways(response) == <<Sent(response)>>

\* if not response: return ... self.send_lines(response)
Relay(response) == IF response = <<>> THEN <<>> ELSE <<Sent(response)>>

on_line_received(line, behaviour) ==
    /\ started
    /\ ~stopped
    /\ NumReceived < MaxLines
    /\ IF Malformed(line)
       THEN /\ stopped' = TRUE
            /\ trace' = trace \o <<Received(line), Stopped>>
            /\ dispatcher' = dispatcher
       ELSE LET d == Dispatch(dispatcher, handlers, line, behaviour)
            IN /\ stopped' = stopped
               /\ trace' = trace \o <<Received(line), Dispatched(line),
                                      Returned(d.response)>> \o Relay(d.response)
               /\ dispatcher' = d.dispatcher
    /\ UNCHANGED <<handlers, pc, op, started>>

on_event_Drops(subsystem) ==
    /\ started
    /\ ~stopped
    /\ NumEvents < MaxEvents
    /\ trace' = Append(trace, Event(subsystem))
    /\ UNCHANGED <<handlers, pc, op, started, stopped, dispatcher>>

\* self.dispatcher.handle_idle(subsystem); the dispatcher sends what it answers
on_event(subsystem) ==
    /\ started
    /\ ~stopped
    /\ NumEvents < MaxEvents
    /\ LET d == handle_idle(dispatcher, subsystem)
       IN /\ trace' = trace \o <<Event(subsystem), IdleHandled(subsystem)>>
                            \o (IF d.response = <<>> THEN <<>> ELSE <<Sent(d.response)>>)
          /\ dispatcher' = d.dispatcher
    /\ UNCHANGED <<handlers, pc, op, started, stopped>>

\* a line of bytes as the transport hands it to decode
ValidBytes(text) == [valid |-> TRUE, text |-> text]
InvalidBytes == [valid |-> FALSE, text |-> <<>>]

NoReturn == [type |-> "typing.NoReturn", s |-> <<>>, n |-> 0]

decode_KeepsRunning(line) ==
    IF line.valid THEN [stops |-> FALSE, value |-> Str(line.text)]
    ELSE [stops |-> FALSE, value |-> NoReturn]

\* try: return super().decode(line)
\* except ValueError: self.stop(); return NoReturn
decode(line) ==
    IF line.valid THEN [stops |-> FALSE, value |-> Str(line.text)]
    ELSE [stops |-> TRUE, value |-> NoReturn]

\* a line that is not valid in the encoding arrives; the transport either
\* drops what decode returned or hands it to on_line_received, where
\* len(line) raises TypeError before the guard is evaluated
on_undecodable(handedOn) ==
    /\ started
    /\ ~stopped
    /\ NumReceived < MaxLines
    /\ LET decoded == decode(InvalidBytes)
       IN /\ stopped' = decoded.stops
          /\ trace' = trace \o <<Undecodable>>
                            \o (IF decoded.stops THEN <<Stopped>> ELSE <<>>)
                            \o (IF handedOn /\ decoded.value.type # "str"
                                THEN <<TypeErrorRaised>> ELSE <<>>)
    /\ UNCHANGED <<handlers, pc, op, started, dispatcher>>

\* lines and events are delivered to a running session only
SessionNext ==
    \/ on_start
    \/ /\ started /\ ~stopped /\ NumReceived < MaxLines
       /\ \E line \in SessionLines, behaviour \in HandlerBehaviours :
            /\ decode(ValidBytes(line)).value = Str(line)
            /\ on_line_received(line, behaviour)
    \/ /\ started /\ ~stopped /\ NumEvents < MaxEvents
       /\ \E subsystem \in Subsystems : on_event(subsystem)
    \/ /\ started /\ ~stopped /\ NumReceived < MaxLines
       /\ \E handedOn \in BOOLEAN : on_undecodable(handedOn)

SpecSession == SessionInit /\ [][SessionNext]_vars

(***************************************************************************)
(* Command lists: what the dispatcher does when a list is closed.          *)
(***************************************************************************)
ListAckLine(kind, command, position) ==
    [type |-> "ack", text |-> kind, command |-> command, position |-> position]

ListPositionOneBased(i) == i

\* the position reported for the i-th buffered command
ListPosition(i) == i - 1

\* the buffered commands from the i-th on: each is resolved against the
\* registry in turn; a success adds its lines (and the boundary marker in
\* verbose mode), a failure ends the list with one ACK line
RECURSIVE ExecuteFrom(_, _, _, _, _, _, _)
ExecuteFrom(h, members, behaviours, verbose, i, attempted, lines) ==
    IF i > Len(members)
    THEN [attempted |-> attempted, response |-> Append(lines, TextLine("OK"))]
    ELSE LET tokens == Tokenize(members[i])
             out == CallOutcome(h, tokens, behaviours[i]).out
         IN IF out.exc # ""
            THEN [attempted |-> Append(attempted, i),
                  response |-> Append(lines,
                      ListAckLine(AckKind(out.exc),
                                  IF Len(tokens) = 0 THEN <<>> ELSE tokens[1],
                                  ListPosition(i)))]
            ELSE ExecuteFrom(h, members, behaviours, verbose, i + 1,
                             Append(attempted, i),
                             IF verbose
                             THEN lines \o <<TextLine("key: value"), TextLine("list_OK")>>
                             ELSE Append(lines, TextLine("key: value")))

ExecuteList(h, members, behaviours, verbose) ==
    ExecuteFrom(h, members, behaviours, verbose, 1, <<>>, <<>>)

\* the commands a client buffers
ListMembers == {PLAY, PLAY \o <<" ", "a">>, STOP, BOGUS}

\* the close command arrives for a list that holds these members
CloseList(members, behaviours, verbose) ==
    /\ op' = [kind |-> "list", members |-> members, behaviours |-> behaviours,
              verbose |-> verbose,
              out |-> ExecuteList(handlers, members, behaviours, verbose)]
    /\ pc' = "done"
    /\ UNCHANGED <<handlers, started, stopped, trace, dispatcher>>

ListNext ==
    \/ /\ pc = "idle"
       /\ \E n \in 0..MaxListLen, verbose \in BOOLEAN :
            \E members \in [1..n -> ListMembers], behaviours \in [1..n -> HandlerBehaviours] :
                CloseList(members, behaviours, verbose)
    \/ Return

SpecList == SessionInit /\ [][ListNext]_vars

(***************************************************************************)
(* Properties of the session (checked under SpecSession).                  *)
(***************************************************************************)
\* nothing is handed to the dispatcher or sent after position i of the trace
NothingAfter(i) ==
    \A j \in (i + 1)..Len(trace) : trace[j].e \notin {"dispatch", "send"}

\* C1: a received line whose first character is not a lowercase letter
\* stops the connection at once; the line is never handed to the dispatcher
\* and no response line is sent for it.
C1_FirstByteGuard ==
    \A i \in 1..Len(trace) :
        (/\ trace[i].e = "recv"
         /\ Len(trace[i].line) > 0
         /\ trace[i].line[1] \notin LowerLetters)
        => /\ stopped
           /\ i < Len(trace)
           /\ trace[i + 1].e = "stop"
           /\ NothingAfter(i)

\* a line starting with a digit arrives after a request that was served
C1_Witness ==
    \E i \in 1..Len(trace) :
        /\ trace[i].e = "recv"
        /\ Len(trace[i].line) > 0
        /\ trace[i].line[1] \in Digits
        /\ \E j \in 1..(i - 1) : trace[j].e = "dispatch"
        /\ stopped

\* C2 as stated: an empty request line is a recoverable no-command failure,
\* answered by a single ACK line, and the connection stays open.
C2_EmptyLineRecoverable ==
    \A i \in 1..Len(trace) :
        (trace[i].e = "recv" /\ trace[i].line = <<>>)
        => /\ ~stopped
           /\ \E j \in (i + 1)..Len(trace) :
                /\ trace[j].e = "send"
                /\ Len(trace[j].lines) = 1
                /\ trace[j].lines[1].type = "ack"
                /\ trace[j].lines[1].text = "no-command"

\* C2 as amended: an empty request line stops the connection; the line is
\* never handed to the dispatcher and no ACK line is sent for it.
C2_EmptyLineStops ==
    \A i \in 1..Len(trace) :
        (trace[i].e = "recv" /\ trace[i].line = <<>>)
        => /\ stopped
           /\ i < Len(trace)
           /\ trace[i + 1].e = "stop"
           /\ NothingAfter(i)

\* an empty line has been received
C2_Witness ==
    \E i \in 1..Len(trace) :
        trace[i].e = "recv" /\ trace[i].line = <<>> /\ stopped

(***************************************************************************)
(* Properties of the registry (checked under Spec).                        *)
(***************************************************************************)
\* a Commands.call has just run
CallDone == pc = "done" /\ op.kind = "call"
\* ... and its command name is registered
Resolved == CallDone /\ op.tokens # <<>> /\ op.tokens[1] \in DOMAIN handlers
\* the invoker and handler the call resolved to
TheEntry == handlers[op.tokens[1]]
TheSpec == TheEntry.spec
NonVariadic == Resolved /\ ~TheSpec.varargs
\* t tokens follow the command name; the handler has o optional and
\* r required parameters after the context
NumTokens == Len(op.tokens) - 1
NumOptional == Len(TheSpec.defaults)
NumRequired == IF TheSpec.varargs THEN 0 ELSE Len(TheSpec.args) - 1 - NumOptional
ArityFits == NumRequired <= NumTokens /\ NumTokens <= NumRequired + NumOptional
HandlerCalled == op.out.funcCalls # <<>>
WrongNumber ==
    op.out.exc = "MpdArgError" /\ op.out.msg = "wrong number of arguments"
IncorrectArguments ==
    op.out.exc = "MpdArgError" /\ op.out.msg = "incorrect arguments"

\* C3: Commands.call fails with no-command on an empty token list, fails
\* with unknown-command (carrying the name) when tokens[0] is not
\* registered, and otherwise invokes the invoker registered under tokens[0]
\* once with the context and the remaining tokens in order, and ends as the
\* invoker ends.
C3_CallOutcomes ==
    CallDone =>
        IF op.tokens = <<>>
        THEN /\ op.out.exc = "MpdNoCommandError"
             /\ op.invokerCalls = <<>>
             /\ op.out.funcCalls = <<>>
        ELSE IF op.tokens[1] \notin DOMAIN handlers
        THEN /\ op.out.exc = "MpdUnknownCommandError"
             /\ op.out.command = op.tokens[1]
             /\ op.invokerCalls = <<>>
             /\ op.out.funcCalls = <<>>
        ELSE /\ Len(op.invokerCalls) = 1
             /\ op.invokerCalls[1].entry = TheEntry
             /\ op.invokerCalls[1].args =
                    <<Context>> \o [i \in 1..NumTokens |-> Str(op.tokens[i + 1])]
             /\ op.out.exc \notin {"MpdNoCommandError", "MpdUnknownCommandError"}
             /\ \A k \in 1..Len(op.out.funcCalls) : op.out.funcCalls[k].spec = TheSpec
             /\ HandlerCalled =>
                    IF op.behaviour = "returns"
                    THEN op.out.exc = "" /\ op.out.result = "Result"
                    ELSE op.out.exc = "MpdAckError" /\ op.out.result = ""

\* two different tokens reach a handler while the other name is bound to
\* another handler
C3_Witness ==
    /\ Resolved
    /\ NumTokens = 2
    /\ op.tokens[2] # op.tokens[3]
    /\ HandlerCalled
    /\ \E n \in DOMAIN handlers : handlers[n] # TheEntry

\* C4 as stated: a non-variadic handler is called if and only if
\* r <= t <= r+o; for every other t the invoker raises 'wrong number of
\* arguments' and the handler is not invoked.
C4_CalledIffArityFits ==
    NonVariadic =>
        /\ HandlerCalled <=> ArityFits
        /\ ~ArityFits => (WrongNumber /\ ~HandlerCalled)

\* C4 as amended: the tokens are bound positionally if and only if
\* r <= t <= r+o, and the handler is then called unless a validator rejects
\* a token ('incorrect arguments'); for every other t the invoker raises
\* 'wrong number of arguments' and the handler is not invoked.
C4_BoundIffArityFits ==
    NonVariadic =>
        /\ WrongNumber <=> ~ArityFits
        /\ HandlerCalled => ArityFits
        /\ ArityFits => (HandlerCalled \/ IncorrectArguments)
        /\ (WrongNumber \/ IncorrectArguments) => ~HandlerCalled
        /\ HandlerCalled =>
            /\ Len(op.out.funcCalls) = 1
            /\ op.out.funcCalls[1].args[1] = Context
            /\ \A i \in 1..NumTokens :
                TheSpec.args[i + 1] \notin DOMAIN TheEntry.validators
                => op.out.funcCalls[1].args[i + 1] = Str(op.tokens[i + 1])

\* two different tokens fill a required and an optional parameter, none
\* with a validator, and the handler is called
C4_Witness ==
    /\ NonVariadic
    /\ NumRequired = 1
    /\ NumOptional = 1
    /\ NumTokens = 2
    /\ op.tokens[2] # op.tokens[3]
    /\ HandlerCalled
    /\ DOMAIN TheEntry.validators = {}

\* every token bound to a parameter with a validator is one it accepts
ValidTokens ==
    \A i \in 1..NumTokens :
        (~TheSpec.varargs /\ i + 1 <= Len(TheSpec.args)
            /\ TheSpec.args[i + 1] \in DOMAIN TheEntry.validators)
        => ApplyValidator(TheEntry.validators[TheSpec.args[i + 1]],
                          Str(op.tokens[i + 1])).exc = ""

\* C5 as stated: calling with exactly the required count of valid tokens
\* succeeds; a non-variadic handler called with one token fewer or one
\* token more than that count yields argument-error.
C5_ExactCountOrError ==
    Resolved =>
        /\ (NumTokens = NumRequired /\ ValidTokens) => HandlerCalled
        /\ (~TheSpec.varargs
                /\ (NumTokens = NumRequired - 1 \/ NumTokens = NumRequired + 1))
            => op.out.exc = "MpdArgError"

\* C5 as amended: calling with exactly the required count of valid tokens
\* succeeds; a non-variadic handler called with one token fewer than the
\* required count, or one token more than the required plus optional count,
\* yields argument-error.
C5_ExactCountOrErrorBeyondOptional ==
    Resolved =>
        /\ (NumTokens = NumRequired /\ ValidTokens) => HandlerCalled
        /\ (~TheSpec.varargs
                /\ (NumTokens = NumRequired - 1
                        \/ NumTokens = NumRequired + NumOptional + 1))
            => (op.out.exc = "MpdArgError" /\ ~HandlerCalled)

\* a handler with an optional parameter gets one token too many
C5_Witness ==
    /\ NonVariadic
    /\ NumOptional >= 1
    /\ NumTokens = NumRequired + NumOptional + 1
    /\ WrongNumber

\* C6: whenever a token is supplied for a parameter that has a validator,
\* the handler receives validator(token), never the raw token, also when
\* the token equals the parameter's declared default.
C6_SuppliedTokenConverted ==
    (NonVariadic /\ HandlerCalled) =>
        \A i \in 1..NumTokens :
            TheSpec.args[i + 1] \in DOMAIN TheEntry.validators
            => /\ op.out.funcCalls[1].args[i + 1] =
                    ApplyValidator(TheEntry.validators[TheSpec.args[i + 1]],
                                   Str(op.tokens[i + 1])).val
               /\ op.out.funcCalls[1].args[i + 1] # Str(op.tokens[i + 1])

\* C7: an optional parameter for which no token is supplied reaches the
\* handler as its declared default, and its validator is not applied.
C7_DefaultKept ==
    (NonVariadic /\ HandlerCalled) =>
        \A j \in (NumTokens + 2)..Len(TheSpec.args) :
            /\ op.out.funcCalls[1].args[j] =
                    TheSpec.defaults[j - (Len(TheSpec.args) - Len(TheSpec.defaults))]
            /\ \A k \in 1..Len(op.out.validated) :
                    op.out.validated[k].key # TheSpec.args[j]

\* a parameter with a validator and a default gets no token
C7_Witness ==
    /\ NonVariadic
    /\ HandlerCalled
    /\ NumTokens + 2 <= Len(TheSpec.args)
    /\ TheSpec.args[NumTokens + 2] \in DOMAIN TheEntry.validators

\* C8: when a validator rejects the token bound to its parameter, the
\* invoker fails with argument-error 'incorrect arguments' and the handler
\* is not invoked.
C8_RejectionIsArgError ==
    (Resolved /\ \E k \in 1..Len(op.out.validated) : op.out.validated[k].rejected)
    => /\ IncorrectArguments
       /\ ~HandlerCalled

\* a validator has rejected a token
C8_Witness ==
    /\ Resolved
    /\ \E k \in 1..Len(op.out.validated) :
            /\ op.out.validated[k].rejected
            /\ op.out.validated[k].value.type = "str"

\* C9: a registered handler is never replaced or removed, and registering
\* a name that is already registered raises and changes nothing.
C9_NoOverwrite ==
    [][/\ \A n \in DOMAIN handlers :
            n \in DOMAIN handlers' /\ handlers'[n] = handlers[n]
       /\ (pc = "idle" /\ pc' = "done" /\ op'.kind = "add"
                /\ op'.name \in DOMAIN handlers)
           => (op'.exc = "ValueError" /\ handlers' = handlers)]_vars

\* a registered name was registered again with another handler
C9_Witness ==
    /\ pc = "done"
    /\ op.kind = "add"
    /\ op.exc = "ValueError"
    /\ op.name \in DOMAIN handlers
    /\ handlers[op.name].spec # op.spec

\* the registrations C10 calls malformed
MalformedRegistration(spec, validators) ==
    \/ Len(spec.args) = 0 /\ ~spec.varargs
    \/ spec.varargs /\ Len(spec.args) > 1
    \/ spec.varkw
    \/ spec.kwonlyargs
    \/ \E key \in DOMAIN validators : \A i \in 1..Len(spec.args) : spec.args[i] # key

\* C10: a malformed registration raises at registration time: the
\* registration fails with an error and no malformed handler is ever in
\* the registry.
C10_MalformedRejected ==
    /\ (pc = "done" /\ op.kind = "add" /\ MalformedRegistration(op.spec, op.validators))
       => op.exc \in {"TypeError", "ValueError"}
    /\ \A n \in DOMAIN handlers :
            ~MalformedRegistration(handlers[n].spec, handlers[n].validators)

\* a handler mixing a rest-of-tokens parameter with a named one is refused
C10_Witness ==
    /\ pc = "done"
    /\ op.kind = "add"
    /\ op.exc = "TypeError"
    /\ op.spec.varargs
    /\ Len(op.spec.args) > 1
    /\ ~op.spec.varkw
    /\ ~op.spec.kwonlyargs

\* C11: every Commands.call, whether it succeeds or fails with no-command,
\* unknown-command or argument-error, leaves the registered names and the
\* handler bound to each name unchanged.
C11_CallKeepsRegistry ==
    [][(pc = "idle" /\ pc' = "done" /\ op'.kind = "call")
       => (/\ DOMAIN handlers' = DOMAIN handlers
           /\ \A n \in DOMAIN handlers : handlers'[n] = handlers[n])]_vars

\* a call has reached a handler while two names are registered
C11_Witness ==
    /\ Resolved
    /\ HandlerCalled
    /\ Cardinality(DOMAIN handlers) = 2
    /\ op.behaviour = "raises"

\* C12: for unsigned integers N and M, RANGE("N") is the interval from N to
\* N+1, RANGE("N:") is the interval from N without an upper end, RANGE("N:M")
\* is the interval from N to M when M > N and fails with a conversion error
\* when M <= N, and every other argument string fails with a conversion error.
C12_RangeContract ==
    (pc = "done" /\ op.kind = "convert") =>
        LET v == op.value
            k == FirstColon(v)
            left == SubSeq(v, 1, k - 1)
            right == SubSeq(v, k + 1, Len(v))
        IN IF IsDigit(v)
           THEN op.out = Converted(Slice(IntV(ParseInt(v)), IntV(ParseInt(v) + 1)))
           ELSE IF k # 0 /\ IsDigit(left) /\ right = <<>>
           THEN op.out = Converted(Slice(IntV(ParseInt(left)), NoneV))
           ELSE IF k # 0 /\ IsDigit(left) /\ IsDigit(right)
           THEN IF ParseInt(right) > ParseInt(left)
                THEN op.out = Converted(Slice(IntV(ParseInt(left)), IntV(ParseInt(right))))
                ELSE op.out.exc = "ValueError"
           ELSE op.out.exc = "ValueError"

\* C13: every external event is handed to the dispatcher's idle handling
\* exactly once; when the connection is blocked on idle and waits for the
\* event's subsystem, exactly one response naming that subsystem is sent and
\* the connection is back in normal mode; otherwise nothing is sent and the
\* connection stays as it was (blocked, if it was blocked).
C13_IdleWakeUp ==
    [][(NumEvents' = NumEvents + 1) =>
        LET new == SubSeq(trace', Len(trace) + 1, Len(trace'))
            subsystem == new[1].line
        IN /\ new[1].e = "event"
           /\ Cardinality({i \in 1..Len(new) : new[i].e = "handle_idle"}) = 1
           /\ new[2] = IdleHandled(subsystem)
           /\ IF /\ dispatcher.state = "Blocking-On-Idle"
                 /\ (dispatcher.subscriptions = {} \/ subsystem \in dispatcher.subscriptions)
              THEN /\ new = <<Event(subsystem), IdleHandled(subsystem),
                              Sent(<<ChangedLine(subsystem), TextLine("OK")>>)>>
                   /\ dispatcher'.state = "Idle-Off"
              ELSE /\ new = <<Event(subsystem), IdleHandled(subsystem)>>
                   /\ dispatcher' = dispatcher]_vars

\* after "idle player" a mixer event was answered with nothing and the
\* player event that followed woke the connection up
C13_Witness ==
    /\ Len(trace) = 9
    /\ trace[2] = Received(IDLE \o <<" ">> \o PLAYER)
    /\ trace[4] = Returned(<<>>)
    /\ trace[5] = Event(MIXER)
    /\ trace[6] = IdleHandled(MIXER)
    /\ trace[7] = Event(PLAYER)
    /\ trace[8] = IdleHandled(PLAYER)
    /\ trace[9] = Sent(<<ChangedLine(PLAYER), TextLine("OK")>>)
    /\ dispatcher.state = "Idle-Off"

\* C14: when a command list is closed its members are executed in arrival
\* order up to and including the first one that fails: every member before it
\* has executed, none after it is executed, and the one failure line carries
\* the 0-indexed position of the failing member; without a failure all
\* members are executed in order and the list ends with OK.
C14_ListAtomicity ==
    (pc = "done" /\ op.kind = "list") =>
        LET n == Len(op.members)
            Fails(i) == CallOutcome(handlers, Tokenize(op.members[i]),
                                    op.behaviours[i]).out.exc # ""
            failing == {i \in 1..n : Fails(i)}
            response == op.out.response
            acks == {j \in 1..Len(response) : response[j].type = "ack"}
        IN IF failing = {}
           THEN /\ op.out.attempted = [i \in 1..n |-> i]
                /\ acks = {}
                /\ response[Len(response)] = TextLine("OK")
           ELSE LET first == CHOOSE i \in failing : \A j \in failing : i <= j
                IN /\ op.out.attempted = [i \in 1..first |-> i]
                   /\ acks = {Len(response)}
                   /\ response[Len(response)].position = first - 1

\* a list of three whose second member fails: the first was executed, the
\* third was not, and position 1 is reported
C14_Witness ==
    /\ pc = "done"
    /\ op.kind = "list"
    /\ op.members = <<STOP, BOGUS, PLAY>>
    /\ op.out.attempted = <<1, 2>>
    /\ op.out.response[Len(op.out.response)].position = 1

\* C15: on one connection, of two requests A and B that reached the
\* dispatcher with A received first, A is handed to the dispatcher, the
\* dispatcher's answer to A is back and A's response lines are sent before B
\* is received and handed on; so responses go out in request order.
C15_PerConnectionOrder ==
    \A i \in 1..Len(trace) : \A j \in (i + 1)..Len(trace) :
        (trace[i].e = "dispatch" /\ trace[j].e = "dispatch") =>
            /\ trace[i - 1] = Received(trace[i].line)
            /\ trace[j - 1] = Received(trace[j].line)
            /\ trace[i + 1].e = "return"
            /\ i + 1 < j - 1
            /\ trace[i + 1].lines # <<>> =>
                 \E k \in (i + 2)..(j - 2) : trace[k] = Sent(trace[i + 1].lines)

\* two requests were answered, with different responses
C15_Witness ==
    \E i \in 1..Len(trace) : \E j \in (i + 1)..Len(trace) :
        /\ trace[i].e = "dispatch"
        /\ trace[j].e = "dispatch"
        /\ trace[i + 1].lines # <<>>
        /\ trace[j + 1].lines # <<>>
        /\ trace[i + 1].lines # trace[j + 1].lines
        /\ trace[j + 2] = Sent(trace[j + 1].lines)

\* C16: a line that cannot be decoded stops the session; it is never handed
\* to the dispatcher, and nothing is sent for it or after it.
C16_DecodeFailureFatal ==
    \A i \in 1..Len(trace) :
        trace[i].e = "undecodable" =>
            /\ stopped
            /\ i < Len(trace)
            /\ trace[i + 1] = Stopped
            /\ NothingAfter(i)

\* an undecodable line arrived after a request had been answered, and what
\* decode returned was handed on
C16_Witness ==
    /\ Len(trace) >= 3
    /\ trace[Len(trace)] = TypeErrorRaised
    /\ trace[Len(trace) - 2] = Undecodable
    /\ \E i \in 1..Len(trace) : trace[i].e = "dispatch"

\* C17: for every received line that passes the first-byte guard the
\* session sends exactly the lines the dispatcher returned for it, in the
\* dispatcher's order and once; when the dispatcher returned no lines it
\* sends nothing and the connection stays open.
C17_ResponseRelay ==
    \A i \in 1..Len(trace) :
        (trace[i].e = "recv" /\ ~Malformed(trace[i].line)) =>
            /\ i + 2 <= Len(trace)
            /\ trace[i + 1] = Dispatched(trace[i].line)
            /\ trace[i + 2].e = "return"
            /\ IF trace[i + 2].lines # <<>>
               THEN /\ i + 3 <= Len(trace)
                    /\ trace[i + 3] = Sent(trace[i + 2].lines)
                    /\ i + 4 <= Len(trace) => trace[i + 4].e # "send"
               ELSE /\ i + 3 <= Len(trace) => trace[i + 3].e \notin {"send", "stop"}
                    /\ i + 2 = Len(trace) => ~stopped

\* a response of two lines was relayed, then a request the dispatcher
\* answered with no lines left the connection open
C17_Witness ==
    /\ Len(trace) = 8
    /\ Len(trace[4].lines) = 2
    /\ trace[5] = Sent(trace[4].lines)
    /\ trace[8] = Returned(<<>>)
    /\ ~stopped

\* C18: once the connection has started, the first thing sent is the one
\* greeting line "OK MPD 0.19.0"; it is sent once, and nothing is sent
\* before the connection has started.
C18_Greeting ==
    /\ ~started => trace = <<>>
    /\ started =>
        /\ trace[1].e = "send"
        /\ Len(trace[1].lines) = 1
        /\ trace[1].lines[1] = TextLine("OK MPD 0.19.0")
        /\ \A i \in 2..Len(trace) :
             trace[i].e = "send" =>
                \A k \in 1..Len(trace[i].lines) : trace[i].lines[k] # trace[1].lines[1]

\* the greeting was followed by the response to a request
C18_Witness ==
    /\ started
    /\ Len(trace) >= 5
    /\ trace[1] = Sent(<<Greeting>>)
    /\ trace[5].e = "send"

\* C19: the invoker of a variadic handler calls the handler once with the
\* context and all argument tokens, unchanged, in order and unconverted,
\* whatever their number (none included); it raises no argument-error of
\* its own and applies no validator, even one registered for the handler.
C19_VariadicPassThrough ==
    (Resolved /\ TheSpec.varargs) =>
        /\ op.out.funcCalls =
              <<[spec |-> TheSpec,
                 args |-> <<Context>> \o [i \in 1..NumTokens |-> Str(op.tokens[i + 1])]]>>
        /\ op.out.validated = <<>>
        /\ op.out.exc # "MpdArgError"
        /\ op.out.exc = IF op.behaviour = "raises" THEN "MpdAckError" ELSE ""

\* a variadic handler registered with a validator was called with three
\* tokens, one of which the validator would reject; another with none
C19_Witness ==
    /\ Resolved
    /\ TheSpec.varargs
    /\ TheEntry.validators # <<>>
    /\ op.tokens = <<op.tokens[1], <<"5">>, <<"a">>, <<"5">>>>
    /\ HandlerCalled

\* C20: a registration that fails (name already registered, handler shape
\* not allowed, validator for a parameter the handler does not have) leaves
\* the registry exactly as it was; one that succeeds adds exactly the one
\* new name, bound to the invoker of the handler given, and changes no
\* other entry.
C20_RegistrationFrame ==
    [][(pc = "idle" /\ pc' = "done" /\ op'.kind = "add") =>
        IF \/ op'.name \in DOMAIN handlers
           \/ MalformedRegistration(op'.spec, op'.validators)
           \/ op'.exc # ""
        THEN /\ op'.exc \in {"ValueError", "TypeError"}
             /\ handlers' = handlers
        ELSE /\ DOMAIN handlers' = DOMAIN handlers \cup {op'.name}
             /\ \A n \in DOMAIN handlers : handlers'[n] = handlers[n]
             /\ handlers'[op'.name].spec = op'.spec
             /\ handlers'[op'.name].validators = op'.validators]_vars

\* with one name registered, registering the other name failed because a
\* validator named a parameter the handler does not have
C20_Witness ==
    /\ pc = "done"
    /\ op.kind = "add"
    /\ op.exc = "TypeError"
    /\ op.msg = "Validator for non-existent arg passed"
    /\ Cardinality(DOMAIN handlers) = 1
    /\ op.name \notin DOMAIN handlers

====
